---------------------------- MODULE Spec2Model ----------------------------
(***************************************************************************)
(* Model of the room layout solver (src/src/sovler.py, src/src/utils.py).  *)
(*                                                                         *)
(* Numbers.  The program computes in floating point; the model computes in *)
(* exact integers.  A length is held in tenths of a length unit (Scale),   *)
(* an area in hundredths of a square unit, an angle in hundredths of a     *)
(* degree.  Every division that would leave this lattice goes through      *)
(* ExactDiv, which is undefined when the quotient is not an integer, so a  *)
(* run that leaves the lattice stops with an error instead of rounding.    *)
(*                                                                         *)
(* Geometry.  The program delegates polygon algebra to shapely.  The model *)
(* gives the shapely predicates it calls (covers, contains, intersects,    *)
(* overlaps, intersection().area, buffer) on the shapes the program builds *)
(* from the modelled inputs: convex room polygons whose walls run along    *)
(* the axes or along a 3-4-5 direction, rectangles aligned with a wall,    *)
(* and the buffer of an axis-parallel door line.                           *)
(***************************************************************************)
EXTENDS Integers, Sequences, FiniteSets, TLC

\* ------------------------------------------------------------------------
\* Arithmetic
\* ------------------------------------------------------------------------

\* sub-units per length unit: halves and fifths of a whole length stay whole
Scale == 2 * 5

\* angle units per degree
AngleScale == Scale * Scale

Abs(x) == IF x < 0 THEN -x ELSE x

Max2(a, b) == IF a >= b THEN a ELSE b

Min2(a, b) == IF a <= b THEN a ELSE b

Sq(x) == x * x

ExactDiv(a, b) == CASE a % b = 0 -> a \div b

RECURSIVE GCD(_, _)
GCD(a, b) == IF b = 0 THEN a ELSE GCD(b, a % b)

SetMax(S) == CHOOSE x \in S : \A y \in S : y <= x

SetMin(S) == CHOOSE x \in S : \A y \in S : x <= y

\* math.sqrt(dx**2 + dy**2) for a vector along an axis or a 3-4-5 direction
Norm(dx, dy) ==
    CASE dy = 0 -> Abs(dx)
      [] dx = 0 -> Abs(dy)
      [] 3 * Abs(dx) = 4 * Abs(dy) -> ExactDiv(5 * Abs(dx), 4)
      [] 4 * Abs(dx) = 3 * Abs(dy) -> ExactDiv(5 * Abs(dx), 3)

\* the direction of a vector as five times a unit vector: <<5 cos, 5 sin>>
Unit5(dx, dy) ==
    LET n == Norm(dx, dy)
    IN  <<ExactDiv(5 * dx, n), ExactDiv(5 * dy, n)>>

\* math.degrees(math.atan2(dy, dx)), in hundredths of a degree
Atan2Deg(dy, dx) ==
    LET u == Unit5(dx, dy)
    IN  CASE u = <<5, 0>>   -> 0
          [] u = <<4, 3>>   -> 3687
          [] u = <<3, 4>>   -> 5313
          [] u = <<0, 5>>   -> 9000
          [] u = <<-3, 4>>  -> 12687
          [] u = <<-4, 3>>  -> 14313
          [] u = <<-5, 0>>  -> 18000
          [] u = <<-4, -3>> -> -14313
          [] u = <<-3, -4>> -> -12687
          [] u = <<0, -5>>  -> -9000
          [] u = <<3, -4>>  -> -5313
          [] u = <<4, -3>>  -> -3687

\* <<5 cos(angle), 5 sin(angle)>> as shapely.affinity.rotate uses them
CosSin5(angle) ==
    LET a == angle % (360 * AngleScale)
    IN  CASE a = 0     -> <<5, 0>>
          [] a = 3687  -> <<4, 3>>
          [] a = 5313  -> <<3, 4>>
          [] a = 9000  -> <<0, 5>>
          [] a = 12687 -> <<-3, 4>>
          [] a = 14313 -> <<-4, 3>>
          [] a = 18000 -> <<-5, 0>>
          [] a = 21687 -> <<-4, -3>>
          [] a = 23313 -> <<-3, -4>>
          [] a = 27000 -> <<0, -5>>
          [] a = 30687 -> <<3, -4>>
          [] a = 32313 -> <<4, -3>>

\* ------------------------------------------------------------------------
\* Planar geometry: the shapely calls of the solver
\* ------------------------------------------------------------------------

\* A point is <<x, y>>.  A polygon is the sequence of its vertices, without
\* the closing repeat; every polygon here is convex.

Nxt(P, i) == P[(i % Len(P)) + 1]

Cross(o, a, b) == (a[1] - o[1]) * (b[2] - o[2]) - (a[2] - o[2]) * (b[1] - o[1])

RECURSIVE Shoelace(_, _)
Shoelace(P, i) ==
    IF i > Len(P) THEN 0
    ELSE P[i][1] * Nxt(P, i)[2] - Nxt(P, i)[1] * P[i][2] + Shoelace(P, i + 1)

\* +1 for a counter-clockwise ring, -1 for a clockwise one: the polygons
\* here are convex, so the turn at one vertex gives the winding
Orient(P) == IF Cross(P[1], P[2], P[3]) >= 0 THEN 1 ELSE -1

\* twice polygon.area
Area2(P) == Abs(Shoelace(P, 1))

\* Edge i of a polygon of orientation o keeps q on its inner side when
\* o * Cross(P[i], Nxt(P, i), q) is positive, and on its line when it is 0.

\* polygon.covers(Point(q))
PointInClosed(P, q) ==
    LET o == Orient(P)
    IN  \A i \in 1..Len(P) : o * Cross(P[i], Nxt(P, i), q) >= 0

\* polygon.contains(Point(q)): the boundary does not count
PointInOpen(P, q) ==
    LET o == Orient(P)
    IN  \A i \in 1..Len(P) : o * Cross(P[i], Nxt(P, i), q) > 0

\* Q.covers(P)
Within(P, Q) ==
    LET o == Orient(Q)
    IN  \A i \in 1..Len(Q) : \A k \in 1..Len(P) : o * Cross(Q[i], Nxt(Q, i), P[k]) >= 0

\* the interiors of P and Q share a point (no edge of either separates them)
InteriorsMeet(P, Q) ==
    LET oP == Orient(P)
        oQ == Orient(Q)
    IN  /\ \A i \in 1..Len(P) : \E k \in 1..Len(Q) : oP * Cross(P[i], Nxt(P, i), Q[k]) > 0
        /\ \A j \in 1..Len(Q) : \E k \in 1..Len(P) : oQ * Cross(Q[j], Nxt(Q, j), P[k]) > 0

\* P.intersects(Q): the closed polygons share a point
Intersects(P, Q) ==
    LET oP == Orient(P)
        oQ == Orient(Q)
    IN  /\ \A i \in 1..Len(P) : \E k \in 1..Len(Q) : oP * Cross(P[i], Nxt(P, i), Q[k]) >= 0
        /\ \A j \in 1..Len(Q) : \E k \in 1..Len(P) : oQ * Cross(Q[j], Nxt(Q, j), P[k]) >= 0

\* P.overlaps(Q): the interiors meet and neither polygon holds the other
Overlaps(P, Q) == InteriorsMeet(P, Q) /\ ~Within(P, Q) /\ ~Within(Q, P)

\* twice P.intersection(Q).area, where the program reads it: the interiors
\* are disjoint, or one polygon lies in the other
InterArea2(P, Q) ==
    CASE ~InteriorsMeet(P, Q) -> 0
      [] Within(P, Q) -> Area2(P)
      [] Within(Q, P) -> Area2(Q)

Sgn(x) == IF x > 0 THEN 1 ELSE IF x < 0 THEN -1 ELSE 0

Dist2(p, q) == Sq(p[1] - q[1]) + Sq(p[2] - q[2])

\* c lies nearer than r to the segment u-v (strict), or no farther than r
PtSegNear(c, u, v, r, strict) ==
    LET n == Norm(v[1] - u[1], v[2] - u[2])
        t == (c[1] - u[1]) * (v[1] - u[1]) + (c[2] - u[2]) * (v[2] - u[2])
        within(d2, bound2) == IF strict THEN d2 < bound2 ELSE d2 <= bound2
    IN  IF t <= 0 THEN within(Dist2(c, u), Sq(r))
        ELSE IF t >= Sq(n) THEN within(Dist2(c, v), Sq(r))
        ELSE IF strict THEN Abs(Cross(u, v, c)) < r * n
        ELSE Abs(Cross(u, v, c)) <= r * n

\* the segments u-v and p-q cross at a point interior to both
Crossing(u, v, p, q) ==
    /\ Sgn(Cross(u, v, p)) * Sgn(Cross(u, v, q)) < 0
    /\ Sgn(Cross(p, q, u)) * Sgn(Cross(p, q, v)) < 0

\* P against LineString([p, q]).buffer(r), the set of points within r of
\* the segment (empty when r = 0).  strict: the interiors meet, some point of
\* P lies nearer than r to the segment; otherwise: the closed shapes meet
BufferMeets(P, p, q, r, strict) ==
    /\ r > 0
    /\ \/ PointInClosed(P, p)
       \/ PointInClosed(P, q)
       \/ \E i \in 1..Len(P) :
            \/ Crossing(P[i], Nxt(P, i), p, q)
            \/ PtSegNear(P[i], p, q, r, strict)
            \/ PtSegNear(p, P[i], Nxt(P, i), r, strict)
            \/ PtSegNear(q, P[i], Nxt(P, i), r, strict)

\* P lies in the buffer
WithinBuffer(P, p, q, r) == \A k \in 1..Len(P) : PtSegNear(P[k], p, q, r, FALSE)

\* the buffer lies in P
BufferWithin(P, p, q, r) ==
    LET o == Orient(P)
    IN  \A i \in 1..Len(P) :
            LET n == Norm(Nxt(P, i)[1] - P[i][1], Nxt(P, i)[2] - P[i][2])
            IN  /\ o * Cross(P[i], Nxt(P, i), p) >= r * n
                /\ o * Cross(P[i], Nxt(P, i), q) >= r * n

\* the share of rectangle P that lies beyond edge i of the room R (of
\* orientation o), as <<numerator, denominator>>
BeyondEdge(o, R, i, P) ==
    LET ex == Nxt(R, i)[1] - R[i][1]
        ey == Nxt(R, i)[2] - R[i][2]
        g  == GCD(Abs(ex), Abs(ey))
        px == ExactDiv(ex, g)
        py == ExactDiv(ey, g)
        h  == [k \in 1..4 |-> -o * (px * (P[k][2] - R[i][2]) - py * (P[k][1] - R[i][1]))]
        A  == Abs(h[2] - h[1])
        B  == Abs(h[4] - h[1])
        m  == Max2(Max2(h[1], h[2]), Max2(h[3], h[4]))
        lo == Min2(Min2(h[1], h[2]), Min2(h[3], h[4]))
        F(t) == IF t > 0 THEN Sq(t) ELSE 0
    IN  IF m <= 0 THEN <<0, 1>>
        ELSE IF lo >= 0 THEN <<1, 1>>
        ELSE IF A = 0 THEN <<m, B>>
        ELSE IF B = 0 THEN <<m, A>>
        ELSE <<F(m) - F(m - A) - F(m - B), 2 * A * B>>

\* room.intersection(P).area < P.area * 0.999: more than one thousandth of
\* P lies outside the room
OutsideExceeds(R, P) ==
    LET o == Orient(R)
        Over(share) == share[1] > share[2] \div 1000
    IN  IF \E i \in 1..Len(R) : Over(BeyondEdge(o, R, i, P)) THEN TRUE
        ELSE LET f == [i \in 1..Len(R) |-> BeyondEdge(o, R, i, P)]
                 E == {i \in 1..Len(R) : f[i][1] > 0}
                 k == Cardinality(E)
             IN  CASE k <= 1 -> FALSE
                   [] \A i \in E : f[i][1] * k <= f[i][2] \div 1000 -> FALSE

\* shapely.geometry.box(minx, miny, maxx, maxy), rotated by angle about the
\* origin and translated to center
BoxAt(minx, miny, maxx, maxy, angle, center) ==
    LET cs == CosSin5(angle)
        Rot(x, y) == <<center[1] + ExactDiv(x * cs[1] - y * cs[2], 5),
                       center[2] + ExactDiv(x * cs[2] + y * cs[1], 5)>>
    IN  <<Rot(maxx, miny), Rot(maxx, maxy), Rot(minx, maxy), Rot(minx, miny)>>

\* ------------------------------------------------------------------------
\* Inputs
\* ------------------------------------------------------------------------

\* the most entries of algoToPlace in a modelled input
MaxItems == 2

\* the most solve() calls (direct or through is_feasible) in a behaviour
MaxSolves == 2

\* the most is_feasible() calls in a behaviour
MaxFeasibleCalls == 2

\* the most values that solve() and is_feasible() return in a behaviour
MaxReturns == 3

U(p) == <<p[1] * Scale, p[2] * Scale>>

Pts(ps) == [k \in 1..Len(ps) |-> U(ps[k])]

\* a room whose first wall runs along (-4, 3), in length units
SlantedRoom == <<<<400, 150>>, <<200, 300>>, <<0, 300>>, <<0, 0>>, <<400, 0>>>>

\* a room in which no wall has an interior point 100 units off its midpoint
SmallRoom == <<<<0, 0>>, <<100, 0>>, <<100, 90>>, <<0, 90>>>>

\* the 400 x 300 room of the scenarios
WideRoom == <<<<0, 0>>, <<400, 0>>, <<400, 300>>, <<0, 300>>>>

\* room boundaries, in length units: the 400 x 300 room of the scenarios, a
\* room narrower than the normal probe, the room with a slanted wall and
\* the small room
Rooms ==
    { WideRoom,
      <<<<0, 0>>, <<400, 0>>, <<400, 80>>, <<0, 80>>>>,
      SlantedRoom,
      SmallRoom }

\* doors on walls that all the rooms share; the first leaves room for the
\* smallest item between the corner and the door
Doors ==
    { <<<<10, 0>>, <<100, 0>>>>,
      <<<<0, 10>>, <<0, 70>>>> }

\* the doors offered to a room: the small room has its door higher up its
\* left wall, so that a fridge fits below the door's square
DoorsFor(r) ==
    IF r = SmallRoom THEN { <<<<0, 20>>, <<0, 80>>>> } ELSE Doors

\* a door whose two endpoints coincide
PointDoor == <<<<10, 0>>, <<10, 0>>>>

\* item name -> [dim1, dim2], in length units
ItemDims ==
    [fridge1 |-> <<60, 60>>, mini_fridge |-> <<10, 10>>,
     table |-> <<60, 210>>, shelf1 |-> <<500, 35>>,
     fridge2 |-> <<50, 50>>, cabinet |-> <<25, 75>>]

\* the items offered to a room: every candidate along the slanted wall has
\* whole sub-unit coordinates when the dimensions are multiples of 25
NamesFor(r) ==
    IF r = SlantedRoom THEN {"fridge2", "cabinet"}
    ELSE IF r = SmallRoom THEN {"mini_fridge", "fridge2"}
    ELSE {"fridge1", "mini_fridge", "table", "shelf1"}

\* "fridge" in name
HasFridge(name) == name \in {"fridge1", "mini_fridge", "fridge2"}

\* the ordered mappings name -> dims with at most n distinct names
RECURSIVE ItemLists(_, _)
ItemLists(names, n) ==
    IF n = 0 THEN {<<>>}
    ELSE LET shorter == ItemLists(names, n - 1)
         IN  shorter \cup
             { Append(l, <<nm, <<ItemDims[nm][1] * Scale, ItemDims[nm][2] * Scale>>>>) :
                 <<l, nm>> \in { <<l, nm>> \in shorter \X names :
                                   /\ Len(l) = n - 1
                                   /\ \A k \in 1..Len(l) : l[k][1] # nm } }

Inputs ==
    UNION { { [boundary |-> Pts(r), door |-> Pts(d), isOpenInward |-> b, algoToPlace |-> l] :
                d \in DoorsFor(r), b \in BOOLEAN, l \in ItemLists(NamesFor(r), MaxItems) } :
            r \in Rooms }

\* inputs whose door has length 0
PointDoorInputs ==
    { [boundary |-> Pts(WideRoom), door |-> Pts(PointDoor), isOpenInward |-> b,
       algoToPlace |-> l] :
          b \in BOOLEAN, l \in ItemLists({"mini_fridge"}, 1) }

\* the dict d without key k
Without(d, k) == [f \in (DOMAIN d) \ {k} |-> d[f]]

\* inputs that lack one key
PartialInputs ==
    { Without([boundary |-> Pts(WideRoom), door |-> Pts(<<<<10, 0>>, <<100, 0>>>>),
               isOpenInward |-> TRUE,
               algoToPlace |-> <<<<"mini_fridge", <<10 * Scale, 10 * Scale>>>>>>], k) :
          k \in {"boundary", "door", "isOpenInward", "algoToPlace"} }

\* ------------------------------------------------------------------------
\* State
\* ------------------------------------------------------------------------

VARIABLES
    data,                  \* the constructor's argument
    door_restricted_zone,  \* self.door_restricted_zone
    placed_items,          \* self.placed_items
    last_results,          \* self._last_results, None while the attribute is unset
    pc,                    \* "idle", "loop" while solve() runs, "raised" when __init__ raised
    caller,                \* who called the running solve(): "solve" or "is_feasible"
    sorted_items,          \* solve()'s local sorted_items
    idx,                   \* position of solve()'s item loop in sorted_items
    results,               \* solve()'s local results
    attempts,              \* history: item names in the order the running or last solve() took them up
    returned,              \* history: the value of every completed solve() call
    feasible               \* history: the value of every completed is_feasible() call

vars == <<data, door_restricted_zone, placed_items, last_results, pc, caller,
          sorted_items, idx, results, attempts, returned, feasible>>

room_polygon == data.boundary

\* an empty dict
EmptyDict == [n \in {} |-> [placed |-> FALSE]]

\* an absent polygon (Python's None where a polygon may stand)
NoPoly == <<>>

\* ------------------------------------------------------------------------
\* utils.py and LayoutSolver.__init__: the door zone
\* ------------------------------------------------------------------------

\* create_door_avoidance_zone's None
NoZone == [kind |-> "none", poly |-> <<>>, p1 |-> <<0, 0>>, p2 |-> <<0, 0>>, r |-> 0]

PolyZone(P) == [kind |-> "poly", poly |-> P, p1 |-> <<0, 0>>, p2 |-> <<0, 0>>, r |-> 0]

\* LineString([p1, p2]).buffer(r)
BufferZone(p1, p2, r) == [kind |-> "buffer", poly |-> <<>>, p1 |-> p1, p2 |-> p2, r |-> r]

door_width(door) == Norm(door[2][1] - door[1][1], door[2][2] - door[1][2])

create_door_avoidance_zone(door_points, is_open_inward, width, room) ==
    IF ~is_open_inward THEN NoZone
    ELSE
    LET p1 == door_points[1]
        p2 == door_points[2]
        center_x == ExactDiv(p1[1] + p2[1], 2)
        center_y == ExactDiv(p1[2] + p2[2], 2)
        length == Norm(p2[1] - p1[1], p2[2] - p1[2])
    IN  IF length = 0 THEN NoZone
        ELSE
        LET d5 == Unit5(p2[1] - p1[1], p2[2] - p1[2])
            perp_x5 == -d5[2]
            perp_y5 == d5[1]
            half_size == ExactDiv(width, 2)
            Square(sign) ==
                LET offset_x == center_x + sign * ExactDiv(perp_x5 * half_size, 5)
                    offset_y == center_y + sign * ExactDiv(perp_y5 * half_size, 5)
                IN  BoxAt(offset_x - half_size, offset_y - half_size,
                          offset_x + half_size, offset_y + half_size, 0, <<0, 0>>)
        IN  IF Within(Square(1), room) THEN PolyZone(Square(1))
            ELSE PolyZone(Square(-1))

OutwardBufferPercent == 5

OutwardBufferCap == 50

\* data.get('isOpenInward', False), line 12
is_open_inward(d) == IF "isOpenInward" \in DOMAIN d THEN d.isOpenInward ELSE FALSE

\* a constructor that gives the outward door the radius of line 33
InitDoorZoneHalfWidth(d) ==
    LET width == door_width(d.door)
    IN  IF is_open_inward(d)
        THEN LET door_avoidance == create_door_avoidance_zone(d.door, is_open_inward(d),
                                                              width, d.boundary)
             IN  IF door_avoidance # NoZone THEN door_avoidance
                 ELSE BufferZone(d.door[1], d.door[2], ExactDiv(width, 2))
        ELSE BufferZone(d.door[1], d.door[2], ExactDiv(width, 2))

\* LayoutSolver.__init__, lines 18-39
InitDoorZone(d) ==
    LET width == door_width(d.door)
    IN  IF is_open_inward(d)
        THEN LET door_avoidance == create_door_avoidance_zone(d.door, is_open_inward(d),
                                                              width, d.boundary)
             IN  IF door_avoidance # NoZone THEN door_avoidance
                 ELSE BufferZone(d.door[1], d.door[2], ExactDiv(width, 2))
        ELSE LET buffer_size == Min2(ExactDiv(width * OutwardBufferPercent, 100),
                                     OutwardBufferCap * Scale)
             IN  BufferZone(d.door[1], d.door[2], buffer_size)

\* ------------------------------------------------------------------------
\* LayoutSolver: polygons and the validity predicate
\* ------------------------------------------------------------------------

\* create_item_poly, lines 103-107
create_item_poly(center, length, width, angle) ==
    BoxAt(-ExactDiv(length, 2), -ExactDiv(width, 2),
          ExactDiv(length, 2), ExactDiv(width, 2), angle, center)

\* get_fridge_zones, lines 109-131: <<body, clearance>>
get_fridge_zones(center, length, width, angle) ==
    LET body == create_item_poly(center, length, width, angle)
        clearance_depth == ExactDiv(length, 2)
        clearance == BoxAt(-ExactDiv(length, 2), ExactDiv(width, 2),
                           ExactDiv(length, 2), ExactDiv(width, 2) + clearance_depth,
                           angle, center)
    IN  <<body, clearance>>

\* lines 137-141 and 161-164: covered by the room, or at least 99.9% inside
RoomHolds(room, P) == Within(P, room) \/ ~OutsideExceeds(room, P)

\* P.intersects(zone)
ZoneIntersects(P, Z) ==
    CASE Z.kind = "poly" -> Intersects(P, Z.poly)
      [] Z.kind = "buffer" -> BufferMeets(P, Z.p1, Z.p2, Z.r, FALSE)

\* P.intersection(zone).area > 1e-6.  On the lattice two shapes whose
\* interiors meet share far more than 1e-6 of area, and shapes whose
\* interiors are disjoint share none
ZoneAreaAboveEps(P, Z) ==
    CASE Z.kind = "poly" -> InteriorsMeet(P, Z.poly)
      [] Z.kind = "buffer" -> BufferMeets(P, Z.p1, Z.p2, Z.r, TRUE)

\* lines 144-148
DoorBlocksItem(P, Z) == ZoneIntersects(P, Z) /\ ZoneAreaAboveEps(P, Z)

\* lines 151-152, 155-156, 169-170: P.overlaps(Q) or (P.intersects(Q) and
\* P.intersection(Q).area > P.area * 0.01)
Collides(P, Q) ==
    \/ Overlaps(P, Q)
    \/ (Intersects(P, Q) /\ InterArea2(P, Q) > Area2(P) \div 100)

\* lines 165-166, the same test against the door zone
DoorBlocksClearance(P, Z) ==
    CASE Z.kind = "poly" -> Collides(P, Z.poly)
      [] Z.kind = "buffer" ->
            LET inP  == WithinBuffer(P, Z.p1, Z.p2, Z.r)
                ofP  == BufferWithin(P, Z.p1, Z.p2, Z.r)
                w    == Norm(Z.p2[1] - Z.p1[1], Z.p2[2] - Z.p1[2])
                \* twice the buffer's area lies between these
                lo2  == 4 * Z.r * w + 6 * Sq(Z.r)
                hi2  == 4 * Z.r * w + 7 * Sq(Z.r)
            IN  IF ~BufferMeets(P, Z.p1, Z.p2, Z.r, TRUE) THEN FALSE
                ELSE IF ~inP /\ ~ofP THEN TRUE
                ELSE IF inP THEN Area2(P) > Area2(P) \div 100
                ELSE CASE lo2 > Area2(P) \div 100 -> TRUE
                       [] hi2 <= Area2(P) \div 100 -> FALSE

\* is_valid_position without step 1 and the first half of step 4 (the room)
ValidIgnoringRoom(item_poly, extra_zone) ==
    /\ ~DoorBlocksItem(item_poly, door_restricted_zone)
    /\ \A k \in 1..Len(placed_items) :
          /\ ~Collides(item_poly, placed_items[k].poly)
          /\ placed_items[k].clearance # NoPoly =>
                ~Collides(item_poly, placed_items[k].clearance)
    /\ extra_zone # NoPoly =>
          /\ ~DoorBlocksClearance(extra_zone, door_restricted_zone)
          /\ \A k \in 1..Len(placed_items) : ~Collides(extra_zone, placed_items[k].poly)

\* is_valid_position without step 2 (the door zone against the body)
ValidIgnoringDoor(item_poly, extra_zone) ==
    /\ RoomHolds(room_polygon, item_poly)
    /\ \A k \in 1..Len(placed_items) :
          /\ ~Collides(item_poly, placed_items[k].poly)
          /\ placed_items[k].clearance # NoPoly =>
                ~Collides(item_poly, placed_items[k].clearance)
    /\ extra_zone # NoPoly =>
          /\ RoomHolds(room_polygon, extra_zone)
          /\ ~DoorBlocksClearance(extra_zone, door_restricted_zone)
          /\ \A k \in 1..Len(placed_items) : ~Collides(extra_zone, placed_items[k].poly)

\* is_valid_position, lines 133-172
is_valid_position(item_poly, extra_zone) ==
    /\ RoomHolds(room_polygon, item_poly)
    /\ ~DoorBlocksItem(item_poly, door_restricted_zone)
    /\ \A k \in 1..Len(placed_items) :
          /\ ~Collides(item_poly, placed_items[k].poly)
          /\ placed_items[k].clearance # NoPoly =>
                ~Collides(item_poly, placed_items[k].clearance)
    /\ extra_zone # NoPoly =>
          /\ RoomHolds(room_polygon, extra_zone)
          /\ ~DoorBlocksClearance(extra_zone, door_restricted_zone)
          /\ \A k \in 1..Len(placed_items) : ~Collides(extra_zone, placed_items[k].poly)

\* ------------------------------------------------------------------------
\* LayoutSolver.solve: the candidate poses of one item
\* ------------------------------------------------------------------------

ProbeDistance == 100

MinSteps == 50

StepSpan == 20

GridMargin == 10

\* no pose
NoPose == [found |-> FALSE, center |-> <<0, 0>>, angle |-> 0, poly |-> NoPoly,
           clearance |-> NoPoly]

\* lines 268-273 and 89-94: the polygons of an item at a pose; item holds
\* the loop's name, length and width (lines 182-187)
PoseAt(item, center, angle) ==
    IF HasFridge(item.name)
    THEN LET z == get_fridge_zones(center, item.length, item.width, angle)
         IN  [found |-> TRUE, center |-> center, angle |-> angle, poly |-> z[1],
              clearance |-> z[2]]
    ELSE [found |-> TRUE, center |-> center, angle |-> angle,
          poly |-> create_item_poly(center, item.length, item.width, angle),
          clearance |-> NoPoly]

\* _get_wall_segments, lines 41-44: wall i runs from vertex i to the next
Wall(i) == <<room_polygon[i], Nxt(room_polygon, i)>>

\* lines 199-215: five times the unit normal of the wall, after validation
WallNormal5(wall) ==
    LET d5 == Unit5(wall[2][1] - wall[1][1], wall[2][2] - wall[1][2])
        nx5 == -d5[2]
        ny5 == d5[1]
        mid_wall_x == ExactDiv(wall[1][1] + wall[2][1], 2)
        mid_wall_y == ExactDiv(wall[1][2] + wall[2][2], 2)
        test_point == <<mid_wall_x + ExactDiv(nx5 * ProbeDistance * Scale, 5),
                        mid_wall_y + ExactDiv(ny5 * ProbeDistance * Scale, 5)>>
    IN  IF PointInOpen(room_polygon, test_point) THEN <<nx5, ny5>>
        ELSE <<-nx5, -ny5>>

\* lines 191-251: what one wall and one angle_offset fix for every step
WallFrame(wall, length, width, angle_offset) ==
    LET dx == wall[2][1] - wall[1][1]
        dy == wall[2][2] - wall[1][2]
        wall_angle == Atan2Deg(dy, dx)
        current_angle == wall_angle + angle_offset * AngleScale
        norm == Norm(dx, dy)
        d5 == Unit5(dx, dy)
        n5 == WallNormal5(wall)
        coords == create_item_poly(<<0, 0>>, length, width, current_angle)
        projections == {ExactDiv(coords[k][1] * n5[1] + coords[k][2] * n5[2], 5) : k \in 1..4}
        offset_distance == -SetMin(projections)
        wall_projections ==
            {ExactDiv(coords[k][1] * d5[1] + coords[k][2] * d5[2], 5) : k \in 1..4}
        item_length_along_wall == SetMax(wall_projections) - SetMin(wall_projections)
        max_offset == norm - item_length_along_wall
    IN  [fits |-> item_length_along_wall <= norm,
         current_angle |-> current_angle,
         n5 |-> n5,
         offset_distance |-> offset_distance,
         item_length_along_wall |-> item_length_along_wall,
         wall_length |-> norm,
         max_offset |-> max_offset,
         steps |-> Max2(MinSteps, max_offset \div (StepSpan * Scale))]

\* lines 253-266: the center of step s
WallCenter(wall, f, s) ==
    LET offset_along_wall == ExactDiv(s * f.max_offset, f.steps)
        along == Max2(0, Min2(f.wall_length,
                              offset_along_wall + ExactDiv(f.item_length_along_wall, 2)))
        base_x == wall[1][1] + ExactDiv(along * (wall[2][1] - wall[1][1]), f.wall_length)
        base_y == wall[1][2] + ExactDiv(along * (wall[2][2] - wall[1][2]), f.wall_length)
    IN  <<base_x + ExactDiv(f.n5[1] * f.offset_distance, 5),
          base_y + ExactDiv(f.n5[2] * f.offset_distance, 5)>>

\* lines 253-273: the pose of step s
StepPose(item, wall, f, s) ==
    PoseAt(item, WallCenter(wall, f, s), f.current_angle)

\* lines 274 and 95: is_valid_position(poly, clearance) for a pose
Accepts(pose) == is_valid_position(pose.poly, pose.clearance)

\* a scan that takes the valid step farthest from the wall's start point
ScanWallFromEnd(item, wall, f, s0) ==
    LET Valid(s) == Accepts(StepPose(item, wall, f, s))
    IN  IF \E s \in s0..f.steps : Valid(s)
        THEN StepPose(item, wall, f,
                      CHOOSE s \in s0..f.steps :
                          Valid(s) /\ \A t \in (s + 1)..f.steps : ~Valid(t))
        ELSE NoPose

\* lines 253-279, for s in range(steps + 1) with its break: the pose of the
\* first step from s0 on that is valid
ScanWall(item, wall, f, s0) ==
    LET Valid(s) == Accepts(StepPose(item, wall, f, s))
    IN  IF \E s \in s0..f.steps : Valid(s)
        THEN StepPose(item, wall, f,
                      CHOOSE s \in s0..f.steps :
                          Valid(s) /\ \A t \in s0..(s - 1) : ~Valid(t))
        ELSE NoPose

\* lines 241-253: the scan of a wall that is long enough for the item
ScanFrame(item, wall, f) ==
    IF ~f.fits THEN NoPose
    ELSE ScanWall(item, wall, f, 0)

\* lines 197-281: one wall at one angle_offset; a wall of length 0 is skipped
ScanPair(item, wall, angle_offset) ==
    IF wall[1] = wall[2] THEN NoPose
    ELSE ScanFrame(item, wall, WallFrame(wall, item.length, item.width, angle_offset))

RECURSIVE ScanWalls(_, _)

\* lines 279-281: the search stops at the first pose
OrNextPair(pose, item, k) ==
    IF pose.found THEN pose
    ELSE ScanWalls(item, k + 1)

\* lines 190-281: walls in order, for each wall angle_offset 0 then 90;
\* k counts the (wall, angle_offset) pairs from 0
ScanWalls(item, k) ==
    IF k >= 2 * Len(room_polygon) THEN NoPose
    ELSE OrNextPair(ScanPair(item, Wall((k \div 2) + 1), 90 * (k % 2)), item, k)

\* lines 64-77: the grid coordinates along one axis
RECURSIVE GridFrom(_, _, _)
GridFrom(x, limit, step_size) ==
    IF x < limit THEN <<x>> \o GridFrom(x + step_size, limit, step_size) ELSE <<>>

GridCoords(lo, hi, margin, step_size) ==
    LET g == GridFrom(lo + margin, hi - margin, step_size)
    IN  IF Len(g) = 0 THEN <<ExactDiv(lo + hi, 2)>> ELSE g

\* the angles of the free placement, line 59
FreeAngles == <<0, 90, 180, 270>>

\* the k-th triple of loops that nest y, then x, then the angle innermost
GridPoseAngleInnermost(item, xs, ys, k) ==
    PoseAt(item,
           <<xs[((k \div Len(FreeAngles)) % Len(xs)) + 1],
             ys[(k \div (Len(FreeAngles) * Len(xs))) + 1]>>,
           FreeAngles[(k % Len(FreeAngles)) + 1] * AngleScale)

\* lines 79-93: the pose of the k-th (angle, x, y) triple, counted from 0 in
\* the order the loops visit them (angle outermost, y innermost)
GridPose(item, xs, ys, k) ==
    PoseAt(item,
           <<xs[((k \div Len(ys)) % Len(xs)) + 1], ys[(k % Len(ys)) + 1]>>,
           FreeAngles[(k \div (Len(xs) * Len(ys))) + 1] * AngleScale)

\* lines 85-95: the room contains the center and the pose is valid
PointTakes(pose) == PointInOpen(room_polygon, pose.center) /\ Accepts(pose)

\* lines 79-99: the pose of the first triple from k0 on that is taken
ScanGrid(item, xs, ys, k0) ==
    LET last == Len(FreeAngles) * Len(xs) * Len(ys) - 1
        Taken(k) == PointTakes(GridPose(item, xs, ys, k))
    IN  IF \E k \in k0..last : Taken(k)
        THEN GridPose(item, xs, ys,
                      CHOOSE k \in k0..last :
                          Taken(k) /\ \A t \in k0..(k - 1) : ~Taken(t))
        ELSE NoPose

\* lines 49-77: x_coords (axis 1) or y_coords (axis 2) for an item
AxisCoords(item, axis) ==
    LET lo == SetMin({room_polygon[k][axis] : k \in 1..Len(room_polygon)})
        hi == SetMax({room_polygon[k][axis] : k \in 1..Len(room_polygon)})
        max_dim == Max2(item.length, item.width)
        step_size == ExactDiv(max_dim * 12, 10)
        margin == ExactDiv(max_dim, 2) + GridMargin * Scale
    IN  GridCoords(lo, hi, margin, step_size)

\* _try_free_placement, lines 46-101
try_free_placement(item) == ScanGrid(item, AxisCoords(item, 1), AxisCoords(item, 2), 0)

\* ------------------------------------------------------------------------
\* LayoutSolver: construction, solve() and is_feasible()
\* ------------------------------------------------------------------------

\* the items in the order the input gives them
UnsortedItems(items) == items

\* sorted(items, key=lambda x: "fridge" not in x[0]), line 179: a stable
\* sort on a boolean key
SortedItems(items) ==
    SelectSeq(items, LAMBDA it : HasFridge(it[1])) \o
    SelectSeq(items, LAMBDA it : ~HasFridge(it[1]))

\* an assignment that keeps only the entries of placed items
DictSetIfPlaced(d, name, entry) ==
    IF entry.placed
    THEN [n \in (DOMAIN d) \cup {name} |-> IF n = name THEN entry ELSE d[n]]
    ELSE d

\* results[name] = entry
DictSet(d, name, entry) ==
    [n \in (DOMAIN d) \cup {name} |-> IF n = name THEN entry ELSE d[n]]

\* any(...) in the place of all(...)
SomePlaced(d) == \E n \in DOMAIN d : d[n].placed

\* all(item.get('placed', False) for item in d.values()), lines 298 and 302
AllPlaced(d) == \A n \in DOMAIN d : d[n].placed

\* the result entry of a committed pose, lines 277 and 98
PlacedEntry(pose) ==
    [placed |-> TRUE, center |-> pose.center,
     rotation |-> pose.angle % (360 * AngleScale)]

\* line 288
FailedEntry == [placed |-> FALSE, error |-> "no valid position"]

\* lines 10, 11 and 13 with one key fewer: data['algoToPlace'] is not read
LooksUpTwoKeys(d) == {"boundary", "door"} \subseteq DOMAIN d

\* data['boundary'], data['door'] and data['algoToPlace'], lines 10, 11 and
\* 13: a key the dict lacks raises KeyError
LooksUpKeys(d) == {"boundary", "door", "algoToPlace"} \subseteq DOMAIN d

\* LayoutSolver.__init__, lines 8-39
Init ==
    /\ data \in Inputs \cup PointDoorInputs \cup PartialInputs
    /\ IF LooksUpKeys(data)
       THEN /\ door_restricted_zone = InitDoorZone(data)
            /\ pc = "idle"
       ELSE /\ door_restricted_zone = NoZone
            /\ pc = "raised"
    /\ placed_items = <<>>
    /\ last_results = [set |-> FALSE, value |-> EmptyDict]
    /\ caller = "solve"
    /\ sorted_items = <<>>
    /\ idx = 1
    /\ results = EmptyDict
    /\ attempts = <<>>
    /\ returned = <<>>
    /\ feasible = <<>>

\* a solve() that starts without line 176 (the committed items are kept)
BeginSolveKeepingItems(who) ==
    /\ placed_items' = placed_items
    /\ results' = EmptyDict
    /\ sorted_items' = SortedItems(data.algoToPlace)
    /\ idx' = 1
    /\ attempts' = <<>>
    /\ caller' = who
    /\ pc' = "loop"

\* solve(), lines 174-180: the call and the statements before the item loop
BeginSolve(who) ==
    /\ placed_items' = <<>>
    /\ results' = EmptyDict
    /\ sorted_items' = SortedItems(data.algoToPlace)
    /\ idx' = 1
    /\ attempts' = <<>>
    /\ caller' = who
    /\ pc' = "loop"

Solve ==
    /\ pc = "idle"
    /\ Len(returned) < MaxSolves
    /\ Len(returned) + Len(feasible) < MaxReturns
    /\ BeginSolve("solve")
    /\ UNCHANGED <<data, door_restricted_zone, last_results, returned, feasible>>

\* lines 283-285: the free placement when no wall took the item
OrFree(on_wall, item) ==
    IF on_wall.found THEN on_wall
    ELSE try_free_placement(item)

\* lines 189-285 for one item: the wall-anchored search, then the free one
FindPose(item) ==
    OrFree(ScanWalls(item, 0), item)

\* a commit that assigns the list in the place of appending to it
RecordReplacing(name, pose) ==
    IF pose.found
    THEN /\ placed_items' = <<[name |-> name, poly |-> pose.poly,
                              clearance |-> pose.clearance]>>
         /\ results' = DictSet(results, name, PlacedEntry(pose))
    ELSE /\ placed_items' = placed_items
         /\ results' = DictSet(results, name, FailedEntry)

\* lines 275-278 and 96-98 (the pose is committed), or line 288 (no pose)
Record(name, pose) ==
    IF pose.found
    THEN /\ placed_items' = Append(placed_items,
                [name |-> name, poly |-> pose.poly, clearance |-> pose.clearance])
         /\ results' = DictSet(results, name, PlacedEntry(pose))
    ELSE /\ placed_items' = placed_items
         /\ results' = DictSet(results, name, FailedEntry)

\* the loop's item with the dimensions in the order the input gives them
ItemInInputOrder(name, dims) == [name |-> name, length |-> dims[1], width |-> dims[2]]

\* lines 182-186: the larger dimension is the length, the smaller the width
ItemOf(name, dims) ==
    [name |-> name, length |-> Max2(dims[1], dims[2]), width |-> Min2(dims[1], dims[2])]

\* an item loop that stops at the first item without a pose
PlaceItemAborting ==
    /\ pc = "loop"
    /\ idx <= Len(sorted_items)
    /\ LET name == sorted_items[idx][1]
           dims == sorted_items[idx][2]
       IN  /\ Record(name, FindPose(ItemOf(name, dims)))
           /\ attempts' = Append(attempts, name)
           /\ idx' = IF results'[name].placed THEN idx + 1 ELSE Len(sorted_items) + 1
    /\ UNCHANGED <<data, door_restricted_zone, last_results, pc, caller, sorted_items,
                   returned, feasible>>

\* solve(), lines 182-288: one pass of the item loop
PlaceItem ==
    /\ pc = "loop"
    /\ idx <= Len(sorted_items)
    /\ LET name == sorted_items[idx][1]
           dims == sorted_items[idx][2]
       IN  /\ Record(name, FindPose(ItemOf(name, dims)))
           /\ attempts' = Append(attempts, name)
    /\ idx' = idx + 1
    /\ UNCHANGED <<data, door_restricted_zone, last_results, pc, caller, sorted_items,
                   returned, feasible>>

\* solve(), lines 290-292, and for a solve() that is_feasible() called, its
\* lines 301-302
SolveReturn ==
    /\ pc = "loop"
    /\ idx > Len(sorted_items)
    /\ last_results' = [set |-> TRUE, value |-> results]
    /\ returned' = Append(returned, results)
    /\ feasible' = IF caller = "is_feasible"
                   THEN Append(feasible, [value |-> AllPlaced(results),
                                          after |-> Len(returned) + 1])
                   ELSE feasible
    /\ pc' = "idle"
    /\ UNCHANGED <<data, door_restricted_zone, placed_items, caller, sorted_items, idx,
                   results, attempts>>

\* an is_feasible() that lacks lines 297-298 (it always solves)
IsFeasibleSolving ==
    /\ pc = "idle"
    /\ Len(feasible) < MaxFeasibleCalls
    /\ Len(returned) + Len(feasible) < MaxReturns
    /\ BeginSolve("is_feasible")
    /\ feasible' = feasible
    /\ UNCHANGED <<data, door_restricted_zone, last_results, returned>>

\* is_feasible(), lines 294-300
IsFeasible ==
    /\ pc = "idle"
    /\ Len(feasible) < MaxFeasibleCalls
    /\ Len(returned) + Len(feasible) < MaxReturns
    /\ IF last_results.set
       THEN /\ feasible' = Append(feasible, [value |-> AllPlaced(last_results.value),
                                             after |-> Len(returned)])
            /\ UNCHANGED <<placed_items, results, sorted_items, idx, attempts, caller, pc>>
       ELSE /\ BeginSolve("is_feasible")
            /\ feasible' = feasible
    /\ UNCHANGED <<data, door_restricted_zone, last_results, returned>>

Next == Solve \/ PlaceItem \/ SolveReturn \/ IsFeasible

Spec == Init /\ [][Next]_vars

\* ------------------------------------------------------------------------
\* Properties
\* ------------------------------------------------------------------------

\* the names of algoToPlace, in input order
InputNames ==
    IF "algoToPlace" \in DOMAIN data
    THEN [k \in 1..Len(data.algoToPlace) |-> data.algoToPlace[k][1]]
    ELSE <<>>

Range(f) == {f[k] : k \in DOMAIN f}

IsPrefix(s, t) == Len(s) <= Len(t) /\ \A k \in 1..Len(s) : s[k] = t[k]

NonFridges(names) == SelectSeq(names, LAMBDA n : ~HasFridge(n))

\* a result entry is placed with a center and a rotation, or unplaced with
\* an error
EntryShape(e) ==
    IF e.placed THEN DOMAIN e = {"placed", "center", "rotation"}
    ELSE DOMAIN e = {"placed", "error"}

\* C1: every mapping solve() returns has exactly the names of algoToPlace as
\* its keys, and each entry is placed with center and rotation or unplaced
\* with an error; an item whose search is exhausted gets an unplaced entry.
C1_OneEntryPerItem ==
    /\ \A k \in 1..Len(returned) :
          /\ DOMAIN returned[k] = Range(InputNames)
          /\ \A n \in DOMAIN returned[k] : EntryShape(returned[k][n])
    /\ pc = "loop" => DOMAIN results = Range(attempts)

C1_Witness ==
    \E k \in 1..Len(returned) :
        \E n, m \in DOMAIN returned[k] : returned[k][n].placed /\ ~returned[k][m].placed

\* the two polygons share more than 1% of the smaller one's area.  Committed
\* polygons never overlap partially (lines 151, 155, 169), so the shared area
\* is that of disjoint or nested polygons
SharesOverOnePercent(P, Q) == InterArea2(P, Q) > Min2(Area2(P), Area2(Q)) \div 100

\* C2: after solve() finishes, the bodies of any two placed items share at
\* most 1% of the smaller item's area, also when one lies inside the other.
C2_BodiesShareAtMostOnePercent ==
    pc = "idle" =>
        \A i, j \in 1..Len(placed_items) :
            i # j => ~SharesOverOnePercent(placed_items[i].poly, placed_items[j].poly)

\* a placed body lies wholly inside a body committed after it
C2_Witness ==
    /\ pc = "idle"
    /\ \E i, j \in 1..Len(placed_items) :
          i < j /\ Within(placed_items[i].poly, placed_items[j].poly)

\* C3: after solve() finishes, the clearance of every placed fridge shares
\* at most 1% of the smaller polygon's area with the body of every other
\* placed item, whichever of the two was committed first.
C3_ClearanceShareAtMostOnePercent ==
    pc = "idle" =>
        \A i, j \in 1..Len(placed_items) :
            (i # j /\ placed_items[i].clearance # NoPoly) =>
                ~SharesOverOnePercent(placed_items[i].clearance, placed_items[j].poly)

\* a placed fridge's clearance lies wholly inside a body committed after it
C3_Witness ==
    /\ pc = "idle"
    /\ \E i, j \in 1..Len(placed_items) :
          /\ i < j
          /\ placed_items[i].clearance # NoPoly
          /\ Within(placed_items[i].clearance, placed_items[j].poly)

\* C4: every committed polygon (each body, each fridge clearance) is covered
\* by the room or has at least 99.9% of its area inside it, and an entry is
\* recorded as placed only for a committed polygon.
C4_CommittedInsideRoom ==
    /\ \A k \in 1..Len(placed_items) :
          /\ RoomHolds(room_polygon, placed_items[k].poly)
          /\ placed_items[k].clearance # NoPoly =>
                RoomHolds(room_polygon, placed_items[k].clearance)
    /\ pc = "loop" =>
          \A n \in DOMAIN results :
              results[n].placed <=> \E k \in 1..Len(placed_items) : placed_items[k].name = n

\* a fridge is committed against a wall while another item found no pose
C4_Witness ==
    /\ \E k \in 1..Len(placed_items) :
          /\ placed_items[k].clearance # NoPoly
          /\ \E v \in 1..4 : ~PointInOpen(room_polygon, placed_items[k].poly[v])
    /\ \E n \in DOMAIN results : ~results[n].placed

AxisRotations == {0, 90 * AngleScale, 180 * AngleScale, 270 * AngleScale}

\* C6: the rotation of every placed entry solve() returns is one of 0, 90,
\* 180 and 270 degrees.
C6_RotationsAxisAligned ==
    \A k \in 1..Len(returned) :
        \A n \in DOMAIN returned[k] :
            returned[k][n].placed => returned[k][n].rotation \in AxisRotations

\* an item is placed along the slanted wall, at the wall's own angle
C6_Witness ==
    \E k \in 1..Len(returned) :
        \E n \in DOMAIN returned[k] :
            /\ returned[k][n].placed
            /\ returned[k][n].rotation = Atan2Deg(3, -4)

\* C7: solve() takes up the items one at a time, every fridge before any
\* item that is not a fridge, and the items that are not fridges in input
\* order; each item has its entry before the next is taken up.
C7_FridgesFirst ==
    /\ \A i, j \in 1..Len(attempts) :
          (i < j /\ HasFridge(attempts[j])) => HasFridge(attempts[i])
    /\ (\E i \in 1..Len(attempts) : ~HasFridge(attempts[i])) =>
          \A n \in Range(InputNames) : HasFridge(n) => n \in Range(attempts)
    /\ IsPrefix(NonFridges(attempts), NonFridges(InputNames))
    /\ pc = "loop" => (Len(attempts) = idx - 1 /\ DOMAIN results = Range(attempts))

\* the input names a fridge after another item, and both have been taken up
C7_Witness ==
    /\ Len(attempts) = 2
    /\ ~HasFridge(InputNames[1])
    /\ HasFridge(InputNames[2])

\* C8: all the solve() calls on one solver return the same mapping.
C8_SolveTwiceSame ==
    \A i, j \in 1..Len(returned) : returned[i] = returned[j]

\* two solves have returned, with two items placed
C8_Witness ==
    /\ Len(returned) >= 2
    /\ Cardinality({n \in DOMAIN returned[2] : returned[2][n].placed}) = 2

\* C9: is_feasible() returns true exactly when every entry of the latest
\* solve's mapping is placed.
C9_FeasibleIffAllPlaced ==
    \A k \in 1..Len(feasible) :
        /\ feasible[k].after \in 1..Len(returned)
        /\ feasible[k].value <=>
              \A n \in DOMAIN returned[feasible[k].after] : returned[feasible[k].after][n].placed

\* is_feasible() returned false on a mapping with one placed and one unplaced entry
C9_Witness ==
    \E k \in 1..Len(feasible) :
        /\ ~feasible[k].value
        /\ \E n, m \in DOMAIN returned[feasible[k].after] :
              /\ returned[feasible[k].after][n].placed
              /\ ~returned[feasible[k].after][m].placed

\* C10: once a solve() has completed, no is_feasible() call starts the
\* search, and the call that returns leaves placed_items and the cached
\* mapping as they were.
C10_FeasibleReadsCache ==
    [][last_results.set =>
          /\ ~(pc = "idle" /\ pc' = "loop" /\ caller' = "is_feasible")
          /\ feasible' # feasible =>
                /\ placed_items' = placed_items
                /\ last_results' = last_results
                /\ returned' = returned
                /\ attempts' = attempts
                /\ pc' = pc]_vars

\* is_feasible() has returned twice after the same direct solve()
C10_Witness ==
    /\ Len(feasible) = 2
    /\ caller = "solve"
    /\ feasible[1].after = feasible[2].after


\* a step of the item loop
ItemStep == pc = "loop" /\ idx' = idx + 1

\* C11: an item for which both strategies are exhausted is recorded as
\* unplaced with an error and leaves placed_items as they were; the loop
\* goes on to the next item, and a solve() that has returned has taken up
\* every item of the input.
C11_FailureDoesNotAbort ==
    /\ [](pc = "idle" /\ Len(returned) > 0 =>
            /\ Len(attempts) = Len(InputNames)
            /\ Range(attempts) = Range(InputNames))
    /\ [][pc = "loop" /\ idx <= Len(sorted_items) =>
            /\ ItemStep
            /\ pc' = "loop"
            /\ attempts' = Append(attempts, sorted_items[idx][1])
            /\ ~results'[sorted_items[idx][1]].placed =>
                  /\ "error" \in DOMAIN results'[sorted_items[idx][1]]
                  /\ placed_items' = placed_items]_vars

\* an item was placed after an earlier item of the same solve() found no pose
C11_Witness ==
    /\ pc = "idle"
    /\ \E i, j \in 1..Len(attempts) :
          /\ i < j
          /\ ~results[attempts[i]].placed
          /\ results[attempts[j]].placed
          /\ \E k \in 1..Len(placed_items) : placed_items[k].name = attempts[j]

RequiredKeys == {"boundary", "door", "algoToPlace"}

\* nothing of a solve() exists: no item was taken up and no entry produced
NothingSolved ==
    /\ attempts = <<>>
    /\ returned = <<>>
    /\ DOMAIN results = {}
    /\ placed_items = <<>>
    /\ ~last_results.set

\* a required key is missing, or the door's two endpoints coincide
Malformed(d) == ~(RequiredKeys \subseteq DOMAIN d) \/ d.door[1] = d.door[2]

\* C12 as stated: for an input that lacks boundary, door or algoToPlace, or
\* whose door has length 0, the constructor raises, and nothing of a
\* solve() ever exists.
C12_MalformedFailsAtConstruction ==
    Malformed(data) => (pc = "raised" /\ NothingSolved)

\* C12 as amended: for an input that lacks boundary, door or algoToPlace
\* the constructor raises, and nothing of a solve() ever exists; an input
\* with the three keys is constructed, and when its door has length 0 the
\* door zone is the buffer of radius 0 around the door's point.
C12_MissingKeyFailsAtConstruction ==
    IF RequiredKeys \subseteq DOMAIN data
    THEN /\ pc # "raised"
         /\ data.door[1] = data.door[2] =>
                door_restricted_zone = BufferZone(data.door[1], data.door[2], 0)
    ELSE pc = "raised" /\ NothingSolved

\* solve() has placed an item for an input whose door has length 0
C12_Witness ==
    /\ RequiredKeys \subseteq DOMAIN data
    /\ data.door[1] = data.door[2]
    /\ \E k \in 1..Len(returned) : \E n \in DOMAIN returned[k] : returned[k][n].placed

\* the axis-parallel square of the door's width whose center lies half a
\* door width off the door's midpoint, on the side sign of the door line
DoorSquare(door, sign) ==
    LET w  == door_width(door)
        d5 == Unit5(door[2][1] - door[1][1], door[2][2] - door[1][2])
        cx == ExactDiv(door[1][1] + door[2][1], 2) - sign * ExactDiv(d5[2] * w, 10)
        cy == ExactDiv(door[1][2] + door[2][2], 2) + sign * ExactDiv(d5[1] * w, 10)
        h  == ExactDiv(w, 2)
    IN  <<<<cx + h, cy - h>>, <<cx + h, cy + h>>, <<cx - h, cy + h>>, <<cx - h, cy - h>>>>

\* a solver was constructed for an inward door of positive length
InwardDoor ==
    /\ pc # "raised"
    /\ is_open_inward(data)
    /\ data.door[1] # data.door[2]

\* C13: for an inward door the door zone is the first square if the room
\* covers it, otherwise the opposite square if the room covers that one,
\* otherwise the buffer of radius half the door width around the door; a
\* square that the room does not cover is never the door zone.
C13_DoorZoneChain ==
    InwardDoor =>
        door_restricted_zone =
            IF Within(DoorSquare(data.door, 1), room_polygon)
            THEN PolyZone(DoorSquare(data.door, 1))
            ELSE IF Within(DoorSquare(data.door, -1), room_polygon)
            THEN PolyZone(DoorSquare(data.door, -1))
            ELSE BufferZone(data.door[1], data.door[2],
                            ExactDiv(door_width(data.door), 2))

\* the door zone of an inward door is a square that the room does not cover
C13_Witness ==
    /\ InwardDoor
    /\ door_restricted_zone.kind = "poly"
    /\ ~Within(door_restricted_zone.poly, room_polygon)
    /\ door_restricted_zone.poly = DoorSquare(data.door, -1)

\* a solver was constructed for an outward door
OutwardDoor == pc # "raised" /\ ~is_open_inward(data)

\* the body of an item of the given dimensions laid along the door line, on
\* the side sign of it, with a gap of gap between the door line and the body
BodyBesideDoor(door, dims, sign, gap) ==
    LET length == Max2(dims[1], dims[2])
        width  == Min2(dims[1], dims[2])
        d5 == Unit5(door[2][1] - door[1][1], door[2][2] - door[1][2])
        off == gap + ExactDiv(width, 2)
        center == <<ExactDiv(door[1][1] + door[2][1], 2) - sign * ExactDiv(d5[2] * off, 5),
                    ExactDiv(door[1][2] + door[2][2], 2) + sign * ExactDiv(d5[1] * off, 5)>>
    IN  create_item_poly(center, length, width,
                         Atan2Deg(door[2][2] - door[1][2], door[2][1] - door[1][1]))

\* C14: for an outward door the door zone is the buffer around the door
\* line of radius min(5% of the door width, 50), at most 4.5 for a door of
\* width 90, and the door check does not reject a body that keeps 10 units
\* away from the door line.
C14_OutwardDoorThinBuffer ==
    OutwardDoor =>
        /\ door_restricted_zone.kind = "buffer"
        /\ door_restricted_zone.p1 = data.door[1]
        /\ door_restricted_zone.p2 = data.door[2]
        /\ 100 * door_restricted_zone.r =
              Min2(5 * door_width(data.door), 100 * 50 * Scale)
        /\ door_width(data.door) = 90 * Scale => 10 * door_restricted_zone.r <= 45 * Scale
        /\ data.door[1] # data.door[2] =>
              \A k \in 1..Len(data.algoToPlace) : \A sign \in {1, -1} :
                  ~DoorBlocksItem(BodyBesideDoor(data.door, data.algoToPlace[k][2],
                                                 sign, 10 * Scale),
                                  door_restricted_zone)

\* beside an outward door of width 90 a body is committed that keeps 10
\* units away from the door and comes nearer to it than half its width
C14_Witness ==
    /\ OutwardDoor
    /\ door_width(data.door) = 90 * Scale
    /\ \E k \in 1..Len(placed_items) :
          /\ ~BufferMeets(placed_items[k].poly, data.door[1], data.door[2], 10 * Scale, TRUE)
          /\ BufferMeets(placed_items[k].poly, data.door[1], data.door[2], 45 * Scale, TRUE)

\* the result entry of a search
EntryOf(pose) == IF pose.found THEN PlacedEntry(pose) ELSE FailedEntry

\* the polygons a search commits
CommittedBy(name, pose) ==
    IF pose.found
    THEN <<[name |-> name, poly |-> pose.poly, clearance |-> pose.clearance]>>
    ELSE <<>>

\* the entry and the polygons of this step are those of the search
SameOutcome(name, pose) ==
    /\ results'[name] = EntryOf(pose)
    /\ placed_items' = placed_items \o CommittedBy(name, pose)

\* C15: the pass of the item loop for an item of dimensions [a, b] records
\* the entry, and commits the polygons, that the search for the same item
\* with dimensions [b, a] yields from the same committed items; so the two
\* inputs get the same results, item after item.
C15_DimensionOrderIrrelevant ==
    [][pc = "loop" /\ idx <= Len(sorted_items) =>
          SameOutcome(sorted_items[idx][1],
                      FindPose(ItemOf(sorted_items[idx][1],
                                      <<sorted_items[idx][2][2], sorted_items[idx][2][1]>>)))]_vars

\* an item whose input gives the smaller dimension first is placed after
\* another item
C15_Witness ==
    /\ pc = "idle"
    /\ Len(placed_items) = 2
    /\ \E k \in 1..Len(data.algoToPlace) :
          /\ data.algoToPlace[k][2][1] < data.algoToPlace[k][2][2]
          /\ placed_items[2].name = data.algoToPlace[k][1]

\* the result entry e is that of the pose
Matches(pose, e) ==
    /\ e.placed
    /\ e.center = pose.center
    /\ e.rotation = pose.angle % (360 * AngleScale)

\* along a wall at one orientation, the entry e is that of a step which
\* passes the validity predicate while no step nearer to the wall's start
\* point does
FrameHolds(item, wall, f, e) ==
    /\ f.fits
    /\ \E s \in 0..f.steps :
          /\ Matches(StepPose(item, wall, f, s), e)
          /\ Accepts(StepPose(item, wall, f, s))
          /\ \A t \in 0..(s - 1) : ~Accepts(StepPose(item, wall, f, t))

\* along a wall at one orientation no step passes the validity predicate
FrameEmpty(item, wall, f) ==
    f.fits => \A s \in 0..f.steps : ~Accepts(StepPose(item, wall, f, s))

\* the walls in boundary order, each parallel (k even) then perpendicular
PairHolds(item, k, e) ==
    /\ Wall((k \div 2) + 1)[1] # Wall((k \div 2) + 1)[2]
    /\ FrameHolds(item, Wall((k \div 2) + 1),
                  WallFrame(Wall((k \div 2) + 1), item.length, item.width, 90 * (k % 2)), e)

PairEmpty(item, k) ==
    Wall((k \div 2) + 1)[1] # Wall((k \div 2) + 1)[2] =>
        FrameEmpty(item, Wall((k \div 2) + 1),
                   WallFrame(Wall((k \div 2) + 1), item.length, item.width, 90 * (k % 2)))

\* the entry e is that of a pose of the free grid that the room contains
\* and the validity predicate passes
GridHolds(item, xs, ys, e) ==
    \E k \in 0..(Len(FreeAngles) * Len(xs) * Len(ys) - 1) :
        Matches(GridPose(item, xs, ys, k), e) /\ PointTakes(GridPose(item, xs, ys, k))

\* the entry e is that of the first valid wall candidate, or no wall
\* candidate is valid and e is that of a grid pose
FirstCandidate(item, e) ==
    \/ \E k \in 0..(2 * Len(room_polygon) - 1) :
          /\ PairHolds(item, k, e)
          /\ \A j \in 0..(k - 1) : PairEmpty(item, j)
    \/ /\ \A k \in 0..(2 * Len(room_polygon) - 1) : PairEmpty(item, k)
       /\ GridHolds(item, AxisCoords(item, 1), AxisCoords(item, 2), e)

\* C16: the pose committed for an item is the first candidate that passes
\* the validity predicate, taking the walls in boundary order, at each wall
\* the parallel orientation before the perpendicular one, and at each
\* orientation the offsets from the wall's start point on; a pose of the
\* free grid is committed only when no wall candidate passes.
C16_FirstValidCandidate ==
    [][(pc = "loop" /\ idx <= Len(sorted_items)) =>
          (results'[sorted_items[idx][1]].placed =>
              FirstCandidate(ItemOf(sorted_items[idx][1], sorted_items[idx][2]),
                             results'[sorted_items[idx][1]]))]_vars

\* the entry e is that of a step after the first along the first wall,
\* parallel to it
LaterStepOfFirstWall(item, f, e) ==
    f.fits /\ \E s \in 1..f.steps : Matches(StepPose(item, Wall(1), f, s), e)

\* solve() has committed an item along the first wall at a step after the
\* first
C16_Witness ==
    /\ pc = "idle"
    /\ Len(returned) > 0
    /\ \E k \in 1..Len(data.algoToPlace) :
          /\ results[data.algoToPlace[k][1]].placed
          /\ LaterStepOfFirstWall(
                 ItemOf(data.algoToPlace[k][1], data.algoToPlace[k][2]),
                 WallFrame(Wall(1), Max2(data.algoToPlace[k][2][1], data.algoToPlace[k][2][2]),
                           Min2(data.algoToPlace[k][2][1], data.algoToPlace[k][2][2]), 0),
                 results[data.algoToPlace[k][1]])

\* <<angle index, x index, y index>> of the k-th triple, counted from 0,
\* when the angle is the outer loop, then x, then y
AngleOutermost(xs, ys, k) ==
    <<k \div (Len(xs) * Len(ys)), (k \div Len(ys)) % Len(xs), k % Len(ys)>>

\* the same when the angle is the inner loop, then x, then y
AngleInnermost(xs, ys, k) ==
    <<k % Len(FreeAngles), (k \div Len(FreeAngles)) % Len(xs),
      k \div (Len(FreeAngles) * Len(xs))>>

\* the pose of a triple
TriplePose(item, xs, ys, tr) ==
    PoseAt(item, <<xs[tr[2] + 1], ys[tr[3] + 1]>>, FreeAngles[tr[1] + 1] * AngleScale)

\* the entry e is that of the first triple, in the given order, whose
\* center the room contains and whose pose passes the validity predicate
FirstTriple(item, xs, ys, e, Order(_, _, _)) ==
    \E k \in 0..(Len(FreeAngles) * Len(xs) * Len(ys) - 1) :
        /\ Matches(TriplePose(item, xs, ys, Order(xs, ys, k)), e)
        /\ PointTakes(TriplePose(item, xs, ys, Order(xs, ys, k)))
        /\ \A j \in 0..(k - 1) : ~PointTakes(TriplePose(item, xs, ys, Order(xs, ys, j)))

\* the entry e is placed and no wall candidate passes the validity predicate
FromGrid(item, e) ==
    /\ e.placed
    /\ \E a \in 1..Len(FreeAngles) : e.rotation = FreeAngles[a] * AngleScale
    /\ \A k \in 0..(2 * Len(room_polygon) - 1) : PairEmpty(item, k)

\* C17 as stated: a pose of the free grid is committed as the first accepted
\* one of loops that nest y, then x, then the rotation innermost: the four
\* rotations are tried at a grid point before the next point.
C17_RotationInnermost ==
    [][(pc = "loop" /\ idx <= Len(sorted_items)) =>
          (FromGrid(ItemOf(sorted_items[idx][1], sorted_items[idx][2]),
                    results'[sorted_items[idx][1]]) =>
              FirstTriple(ItemOf(sorted_items[idx][1], sorted_items[idx][2]),
                          AxisCoords(ItemOf(sorted_items[idx][1], sorted_items[idx][2]), 1),
                          AxisCoords(ItemOf(sorted_items[idx][1], sorted_items[idx][2]), 2),
                          results'[sorted_items[idx][1]], AngleInnermost))]_vars

\* C17 as amended: a pose of the free grid is committed as the first
\* accepted one of loops that nest the rotation outermost, then x, then y
\* innermost: every grid point is tried at rotation 0 before any point is
\* tried at rotation 90.
C17_RotationOutermost ==
    [][(pc = "loop" /\ idx <= Len(sorted_items)) =>
          (FromGrid(ItemOf(sorted_items[idx][1], sorted_items[idx][2]),
                    results'[sorted_items[idx][1]]) =>
              FirstTriple(ItemOf(sorted_items[idx][1], sorted_items[idx][2]),
                          AxisCoords(ItemOf(sorted_items[idx][1], sorted_items[idx][2]), 1),
                          AxisCoords(ItemOf(sorted_items[idx][1], sorted_items[idx][2]), 2),
                          results'[sorted_items[idx][1]], AngleOutermost))]_vars

\* solve() has committed a fridge on the free grid at rotation 0, away from
\* the first grid point
C17_Witness ==
    /\ pc = "idle"
    /\ \E k \in 1..Len(placed_items) :
          /\ \A v \in 1..4 : PointInOpen(room_polygon, placed_items[k].poly[v])
          /\ placed_items[k].clearance # NoPoly
          /\ results[placed_items[k].name].rotation = 0
          /\ results[placed_items[k].name].center[1] >
                SetMin({room_polygon[j][1] : j \in 1..Len(room_polygon)})
                + ExactDiv(ItemDims[placed_items[k].name][1] * Scale, 2)
                + (GridMargin + 1) * Scale

\* the point half a length unit off the midpoint of the wall, along n5
OffMidpoint(wall, n5) ==
    <<ExactDiv(wall[1][1] + wall[2][1], 2) + n5[1],
      ExactDiv(wall[1][2] + wall[2][2], 2) + n5[2]>>

\* the validated normal of the wall points into the room
NormalInward(wall) == PointInOpen(room_polygon, OffMidpoint(wall, WallNormal5(wall)))

\* the body P has an edge on the line of the wall and no vertex beyond it
FlushInside(wall, P) ==
    /\ \A v \in 1..4 : Orient(room_polygon) * Cross(wall[1], wall[2], P[v]) >= 0
    /\ \E v \in 1..4 : Cross(wall[1], wall[2], P[v]) = 0

\* the first candidate of the item along the wall is flush inside it
FirstStepFlush(item, wall, f) ==
    f.fits => FlushInside(wall, StepPose(item, wall, f, 0).poly)

\* C18: for every wall of the room the validated normal points into the
\* room, and the candidates along the wall have an edge on the wall and
\* their body on the inner side of it, also in a room narrower than the
\* probe distance.
C18_NormalsPointInward ==
    pc # "raised" =>
        \A i \in 1..Len(room_polygon) :
            Wall(i)[1] # Wall(i)[2] =>
                /\ NormalInward(Wall(i))
                /\ \A k \in 1..Len(data.algoToPlace) : \A angle_offset \in {0, 90} :
                      FirstStepFlush(ItemOf(data.algoToPlace[k][1], data.algoToPlace[k][2]),
                                     Wall(i),
                                     WallFrame(Wall(i),
                                               Max2(data.algoToPlace[k][2][1],
                                                    data.algoToPlace[k][2][2]),
                                               Min2(data.algoToPlace[k][2][1],
                                                    data.algoToPlace[k][2][2]),
                                               angle_offset))

\* solve() has returned for a room with a wall whose validated normal
\* points out of the room
C18_Witness ==
    /\ pc = "idle"
    /\ Len(returned) > 0
    /\ \E i \in 1..Len(room_polygon) :
          /\ ~NormalInward(Wall(i))
          /\ PointInOpen(room_polygon,
                         OffMidpoint(Wall(i), <<-WallNormal5(Wall(i))[1],
                                               -WallNormal5(Wall(i))[2]>>))

\* the names of the committed items, in the order of the list
CommittedNames == [k \in 1..Len(placed_items) |-> placed_items[k].name]

\* the names taken up so far whose entry is placed, in the order taken up
PlacedNames == SelectSeq(attempts, LAMBDA n : results[n].placed)

\* C19: between two items of a solve(), and after it, the committed items
\* are exactly the items whose entry is placed, in the same order; a pass
\* of the item loop adds one entry and either leaves the committed items as
\* they were (no candidate passed) or appends the item's polygons; while
\* the solve() runs, no committed item is changed or removed.
C19_PlacementAtomic ==
    /\ [](pc \in {"idle", "loop"} =>
            /\ DOMAIN results = Range(attempts)
            /\ CommittedNames = PlacedNames)
    /\ [][pc = "loop" =>
            /\ IsPrefix(placed_items, placed_items')
            /\ Len(placed_items') <= Len(placed_items) + 1
            /\ \A n \in DOMAIN results : n \in DOMAIN results' /\ results'[n] = results[n]
            /\ idx' # idx =>
                  /\ DOMAIN results' = DOMAIN results \cup {sorted_items[idx][1]}
                  /\ results'[sorted_items[idx][1]].placed <=>
                        /\ Len(placed_items') = Len(placed_items) + 1
                        /\ placed_items'[Len(placed_items')].name = sorted_items[idx][1]
            /\ idx' = idx => (placed_items' = placed_items /\ results' = results)]_vars

\* between the first item, committed, and the second of a solve()
C19_Witness ==
    /\ pc = "loop"
    /\ idx = 2
    /\ idx <= Len(sorted_items)
    /\ Len(placed_items) = 1

============================================================================
